---- MODULE Spec2Model ----
(***************************************************************************)
(* A model of yt2org.py: the transcript pipeline of main (fetch, checks,   *)
(* summary call, chunked formatting calls, document assembly, file write)  *)
(* and of chunk_text, the splitter it relies on.                           *)
(*                                                                         *)
(* A Python str is a sequence of one-character strings.  Text generated by *)
(* the external service is a tagged record naming the prompt it answers.   *)
(***************************************************************************)
EXTENDS Integers, Sequences, FiniteSets, TLC

VARIABLES
    pc,              \* position in main / chunk_text
    caller,          \* who called chunk_text: "direct" or "pipeline"
    argv,            \* the command line: "url", "help" or "usage_error"
    api_key,         \* os.environ.get("GEMINI_API_KEY"): NoKey, "" or a key
    fetch_failed,    \* ytt_api.fetch raised
    raw_transcript,  \* main's raw_transcript
    input_text,      \* the argument chunk_text was called with
    chunk_size,      \* chunk_text's chunk_size
    text,            \* chunk_text's local: the remaining text
    chunks,          \* chunk_text's local list, then its return value
    chunked,         \* chunk_text has been entered
    summary,         \* generate_summary's return value
    i,               \* enumerate index of the formatting loop
    formatted_parts, \* generate_formatted_transcript's list
    calls,           \* log of model.generate_content calls, in call order
    final_document,  \* format_transcript_with_gemini's return value
    file,            \* the output file: NoFile, or its content
    exit_status      \* process exit status once pc = "exit"

vars == <<pc, caller, argv, api_key, fetch_failed, raw_transcript, input_text,
          chunk_size, text, chunks, chunked, summary, i, formatted_parts,
          calls, final_document, file, exit_status>>

----------------------------------------------------------------------------
(* Bounds of the model *)

\* longest text handed directly to chunk_text
MaxLen == 6
\* longest transcript the fetch returns in the pipeline
MaxTranscriptLen == 3
\* largest chunk_size tried (the default 20000 of the source, scaled down)
MaxChunkSize == 3

Letters == {"a", "b"}
\* characters Python's str.strip()/str.split() treat as whitespace
Whitespace == {" ", "\n"}
Chars == Letters \cup Whitespace

SeqsUpTo(S, n) == UNION {[1..k -> S] : k \in 0..n}
Texts == SeqsUpTo(Chars, MaxLen)
Transcripts == SeqsUpTo(Chars, MaxTranscriptLen)
ChunkSizes == 1..MaxChunkSize

----------------------------------------------------------------------------
(* Python string primitives *)

SetMax(S) == CHOOSE x \in S : \A y \in S : y <= x
SetMin(S) == CHOOSE x \in S : \A y \in S : x <= y
Min2(a, b) == IF a <= b THEN a ELSE b

\* s[lo:hi] with 0-based, end-exclusive, in-range offsets
Slice(s, lo, hi) == SubSeq(s, lo + 1, hi)

\* s.rfind(c, start, end) for a one-character c: the highest 0-based index
\* in [start, end) holding c, or -1
RFind(s, c, start, end) ==
    LET hi == Min2(end, Len(s))
        found == {j \in start..(hi - 1) : s[j + 1] = c}
    IN  IF found = {} THEN -1 ELSE SetMax(found)

\* s.rstrip(): only trailing whitespace removed
RStripOnly(s) ==
    LET keep == {j \in 1..Len(s) : s[j] \notin Whitespace}
    IN  IF keep = {} THEN <<>> ELSE SubSeq(s, 1, SetMax(keep))

\* s.strip(): leading and trailing whitespace removed
Strip(s) ==
    LET keep == {j \in 1..Len(s) : s[j] \notin Whitespace}
    IN  IF keep = {} THEN <<>> ELSE SubSeq(s, SetMin(keep), SetMax(keep))

----------------------------------------------------------------------------
(* chunk_text *)

\* lines 72-75 with the search window two characters too wide
SplitIndexLateCut(t, size) ==
    LET r == RFind(t, " ", 0, size + 2)
    IN  IF r = -1 THEN size ELSE r

\* lines 72-75: the last space within the first chunk_size characters, or
\* chunk_size when there is none
SplitIndex(t, size) ==
    LET r == RFind(t, " ", 0, size)
    IN  IF r = -1 THEN size ELSE r

\* line 77: the chunk one iteration appends
LoopChunk(t, size) == Slice(t, 0, SplitIndex(t, size))

\* line 78 without the strip of leading whitespace
LoopRestNoLStrip(t, size) == RStripOnly(Slice(t, SplitIndex(t, size), Len(t)))

\* line 78: the text one iteration leaves
LoopRest(t, size) == Strip(Slice(t, SplitIndex(t, size), Len(t)))

\* lines 70-82 as a function: the loop, then the final append
RECURSIVE ChunkLoop(_, _, _)
ChunkLoop(t, acc, size) ==
    IF Len(t) > size
    THEN ChunkLoop(LoopRest(t, size), Append(acc, LoopChunk(t, size)), size)
    ELSE IF t # <<>> THEN Append(acc, t) ELSE acc

chunk_text(t, size) == ChunkLoop(t, <<>>, size)

\* line 70-78: one iteration of the while loop
ChunkLoopStep ==
    /\ pc = "chunk_loop"
    /\ Len(text) > chunk_size
    /\ chunks' = Append(chunks, LoopChunk(text, chunk_size))
    /\ text' = LoopRest(text, chunk_size)
    /\ UNCHANGED <<pc, caller, argv, api_key, fetch_failed, raw_transcript,
                   input_text, chunk_size, chunked, summary, i,
                   formatted_parts, calls, final_document, file, exit_status>>

\* lines 70, 80-82: the loop exit, the final append and the return
ChunkLoopExit ==
    /\ pc = "chunk_loop"
    /\ ~(Len(text) > chunk_size)
    /\ chunks' = IF text # <<>> THEN Append(chunks, text) ELSE chunks
    /\ pc' = IF caller = "pipeline" THEN "format_loop" ELSE "done"
    /\ UNCHANGED <<caller, argv, api_key, fetch_failed, raw_transcript, input_text,
                   chunk_size, text, chunked, summary, i, formatted_parts,
                   calls, final_document, file, exit_status>>

NoKey == "<unset>"
NoFile == <<[kind |-> "<no file>", body |-> <<>>]>>
\* no summary or document has been built yet
NoDocument == <<[kind |-> "<none>", body |-> <<>>]>>
\* content of an output file left by an earlier run
OldFile == <<[kind |-> "literal", body |-> <<"o", "l", "d">>]>>
\* the output path before the run: absent, or an older file
InitialFiles == {NoFile, OldFile}
NoText == <<"<none>">>

\* chunk_text called directly on any text with any positive chunk_size
InitChunk ==
    /\ pc = "chunk_loop"
    /\ caller = "direct"
    /\ argv = "url"
    /\ input_text \in Texts
    /\ chunk_size \in ChunkSizes
    /\ text = input_text
    /\ chunks = <<>>
    /\ chunked = TRUE
    /\ api_key = NoKey
    /\ fetch_failed = FALSE
    /\ raw_transcript = NoText
    /\ summary = NoDocument
    /\ i = 0
    /\ formatted_parts = <<>>
    /\ calls = <<>>
    /\ final_document = NoDocument
    /\ file = NoFile
    /\ exit_status = -1

NextChunk == ChunkLoopStep \/ ChunkLoopExit

SpecChunk == InitChunk /\ [][NextChunk]_vars

\* the interpreter runs the loop to its end
FairSpecChunk == SpecChunk /\ WF_vars(NextChunk)

----------------------------------------------------------------------------
(* Generated text, prompts and the strings built from them.  A Python str   *)
(* that embeds generated text is a sequence of items: literal pieces and    *)
(* texts the service generated for a prompt.                                *)

Literal(pieces) == [kind |-> "literal", body |-> pieces]

\* lines 90-109: the summary prompt, the transcript embedded verbatim
SummaryPrompt(transcript) == [template |-> "summary", input |-> transcript]

\* lines 128-145: the formatting prompt, the chunk embedded verbatim
FormatPrompt(chunk) == [template |-> "format", input |-> chunk]

\* response.text of a successful call: the text generated for that prompt
ResponseText(prompt) ==
    <<[kind |-> "generated:" \o prompt.template, body |-> prompt.input]>>

\* str(n) for n >= 0
DigitChars == <<"0", "1", "2", "3", "4", "5", "6", "7", "8", "9">>
RECURSIVE IntToStr(_)
IntToStr(n) ==
    IF n < 10 THEN <<DigitChars[n + 1]>>
    ELSE IntToStr(n \div 10) \o <<DigitChars[(n % 10) + 1]>>

\* line 115: "Error generating summary."
SummaryErrorChars ==
    <<"E", "r", "r", "o", "r", " ", "g", "e", "n", "e", "r", "a", "t",
      "i", "n", "g", " ", "s", "u", "m", "m", "a", "r", "y", ".">>
SummaryErrorText == <<Literal(SummaryErrorChars)>>

\* lines 110-115: generate_summary's return value
SummaryResult(prompt, ok) ==
    IF ok THEN ResponseText(prompt) ELSE SummaryErrorText

\* line 153: the literal "[Error formatting chunk "
ErrorPrefixChars ==
    <<"[", "E", "r", "r", "o", "r", " ", "f", "o", "r", "m", "a", "t",
      "t", "i", "n", "g", " ", "c", "h", "u", "n", "k", " ">>

\* line 153: f"\n[Error formatting chunk {i + 1}]\n"
ErrorPart(idx) ==
    <<Literal(<<"\n">> \o ErrorPrefixChars \o IntToStr(idx + 1)
              \o <<"]", "\n">>)>>

\* lines 146-153: what one iteration appends to formatted_parts
FormatPart(idx, chunk, ok) ==
    IF ok THEN ResponseText(FormatPrompt(chunk)) ELSE ErrorPart(idx)

\* lines 111, 149: one model.generate_content call, made once
RecordCall(log, prompt, ok) == Append(log, [prompt |-> prompt, ok |-> ok])

\* line 155: "\n\n".join(formatted_parts)
RECURSIVE JoinParts(_)
JoinParts(parts) ==
    IF parts = <<>> THEN <<>>
    ELSE IF Len(parts) = 1 THEN parts[1]
    ELSE parts[1] \o <<Literal(<<"\n", "\n">>)>> \o JoinParts(Tail(parts))

\* line 177: "* Comprehensive Summary\n"
SummaryHeading ==
    Literal(<<"*", " ", "C", "o", "m", "p", "r", "e", "h", "e", "n", "s",
            "i", "v", "e", " ", "S", "u", "m", "m", "a", "r", "y",
            "\n">>)
\* lines 178-180: "\n\n* Formatted Transcript\n"
TranscriptHeading ==
    Literal(<<"\n", "\n", "*", " ", "F", "o", "r", "m", "a", "t", "t",
            "e", "d", " ", "T", "r", "a", "n", "s", "c", "r", "i", "p",
            "t", "\n">>)
\* lines 181-182: the newline that ends the document
FinalNewline == Literal(<<"\n">>)

\* a non-empty proper prefix of one item of a written string: the leading
\* characters of a literal; of a generated text, whose characters the
\* service chooses, the item marked as cut short
PartialItems(item) ==
    IF item.kind = "literal"
    THEN {[kind |-> "literal", body |-> SubSeq(item.body, 1, m)] :
             m \in 1..(Len(item.body) - 1)}
    ELSE {[kind |-> "partial:" \o item.kind, body |-> item.body]}

\* line 231 interrupted: what f.write leaves in the file when the write
\* fails part-way, any proper prefix of the document (whole items, then
\* possibly a part of the next one)
PartialWrites(d) ==
    {SubSeq(d, 1, k) : k \in 0..(Len(d) - 1)}
    \cup
    UNION {{SubSeq(d, 1, k) \o <<part>> : part \in PartialItems(d[k + 1])} :
           k \in 0..(Len(d) - 1)}

\* lines 177-182: the f-string of the final document
AssembleDocument(summaryText, formattedText) ==
    <<SummaryHeading>> \o summaryText \o <<TranscriptHeading>>
        \o formattedText \o <<FinalNewline>>

\* line 218: not raw_transcript.strip()
IsEmptyTranscript(t) == Strip(t) = <<>>

\* line 163 as "api_key is None": an empty key passes
ApiKeyMissingNoneOnly(key) == key = NoKey

\* line 163: not api_key
ApiKeyMissing(key) == key = NoKey \/ key = ""

ApiKeys == {NoKey, "", "key"}

----------------------------------------------------------------------------
(* main and the functions it calls *)

\* command lines: one with a url, --help, or one argparse rejects
CommandLines == {"url", "help", "usage_error"}

\* status the interpreter gives when the flush of stdout or stderr fails
\* as it shuts down
FlushFailedStatus == 120

\* the process ends, by sys.exit(status) or, with status 1, by an exception
\* nothing catches: the status asked for, or FlushFailedStatus when what
\* was written to stdout or stderr cannot be flushed
Exit(status) ==
    /\ pc' = "exit"
    /\ exit_status' \in {status, FlushFailedStatus}

\* lines 203-212: the video id is extracted from the URL and the print of
\* line 212 succeeds; or there is no id and main exits; or the print raises
ExtractVideoId ==
    /\ pc = "main"
    /\ \E found \in BOOLEAN, printed \in BOOLEAN :
          IF found /\ printed THEN pc' = "get_title" /\ UNCHANGED exit_status
          ELSE Exit(1)
    /\ UNCHANGED <<caller, argv, api_key, fetch_failed, raw_transcript, input_text,
                   chunk_size, text, chunks, chunked, summary, i,
                   formatted_parts, calls, final_document, file>>

\* lines 14-30, 214: the title is fetched, or the process exits
GetVideoTitle ==
    /\ pc = "get_title"
    /\ \E ok \in BOOLEAN :
          IF ok THEN pc' = "fetch" /\ UNCHANGED exit_status
          ELSE Exit(1)
    /\ UNCHANGED <<caller, argv, api_key, fetch_failed, raw_transcript, input_text,
                   chunk_size, text, chunks, chunked, summary, i,
                   formatted_parts, calls, final_document, file>>

\* lines 216-217, 51-61: the print of line 216 raises and the process ends
\* before the fetch; or the transcript is fetched; or the fetch raises and
\* the process exits
GetRawTranscriptText ==
    /\ pc = "fetch"
    /\ \/ /\ Exit(1)
          /\ UNCHANGED <<fetch_failed, raw_transcript>>
       \/ /\ \E t \in Transcripts : raw_transcript' = t
          /\ pc' = "check_empty"
          /\ UNCHANGED <<fetch_failed, exit_status>>
       \/ /\ fetch_failed' = TRUE
          /\ Exit(1)
          /\ UNCHANGED raw_transcript
    /\ UNCHANGED <<caller, argv, api_key, input_text, chunk_size, text, chunks,
                   chunked, summary, i, formatted_parts, calls,
                   final_document, file>>

\* lines 218-222: an empty transcript ends the run; otherwise line 222
\* prints, and the run goes on unless that print raises
CheckTranscript ==
    /\ pc = "check_empty"
    /\ IF IsEmptyTranscript(raw_transcript)
       THEN Exit(1)
       ELSE \E printed \in BOOLEAN :
               IF printed THEN pc' = "check_key" /\ UNCHANGED exit_status
               ELSE Exit(1)
    /\ UNCHANGED <<caller, argv, api_key, fetch_failed, raw_transcript, input_text,
                   chunk_size, text, chunks, chunked, summary, i,
                   formatted_parts, calls, final_document, file>>

\* lines 162-172
CheckApiKey ==
    /\ pc = "check_key"
    /\ IF ApiKeyMissing(api_key)
       THEN Exit(1)
       ELSE pc' = "summary" /\ UNCHANGED exit_status
    /\ UNCHANGED <<caller, argv, api_key, fetch_failed, raw_transcript, input_text,
                   chunk_size, text, chunks, chunked, summary, i,
                   formatted_parts, calls, final_document, file>>

\* lines 174, 85-115.  The print of line 89 raises and the process ends
\* with no call made; or the one summary call is made and its text or, the
\* call having raised and line 114 having printed, the placeholder is
\* returned; or the call raises and the print of line 114 raises in the
\* handler, which ends the process
GenerateSummary ==
    /\ pc = "summary"
    /\ \/ /\ Exit(1)
          /\ UNCHANGED <<calls, summary>>
       \/ /\ \E ok \in BOOLEAN :
                /\ calls' = RecordCall(calls, SummaryPrompt(raw_transcript), ok)
                /\ summary' = SummaryResult(SummaryPrompt(raw_transcript), ok)
          /\ pc' = "start_formatting"
          /\ UNCHANGED exit_status
       \/ /\ calls' = RecordCall(calls, SummaryPrompt(raw_transcript), FALSE)
          /\ Exit(1)
          /\ UNCHANGED summary
    /\ UNCHANGED <<caller, argv, api_key, fetch_failed, raw_transcript, input_text,
                   chunk_size, text, chunks, chunked, i, formatted_parts,
                   final_document, file>>

\* lines 175, 122-124, 69: line 122 prints and chunk_text is entered with
\* the transcript; or the print raises and the process ends
StartFormatting ==
    /\ pc = "start_formatting"
    /\ \/ /\ input_text' = raw_transcript
          /\ text' = raw_transcript
          /\ chunks' = <<>>
          /\ chunked' = TRUE
          /\ formatted_parts' = <<>>
          /\ i' = 0
          /\ pc' = "chunk_loop"
          /\ UNCHANGED exit_status
       \/ /\ Exit(1)
          /\ UNCHANGED <<input_text, text, chunks, chunked, formatted_parts, i>>
    /\ UNCHANGED <<caller, argv, api_key, fetch_failed, raw_transcript, chunk_size,
                   summary, calls, final_document, file>>

\* lines 126-153: one iteration of the formatting loop.  The print of line
\* 127 raises and the process ends with no call made; or the call is made
\* and its text or, the call having raised and line 152 having printed,
\* the placeholder is appended; or the call raises and the print of line
\* 152 raises in the handler, which ends the process with nothing appended
FormatChunk ==
    /\ pc = "format_loop"
    /\ i < Len(chunks)
    /\ \/ /\ Exit(1)
          /\ UNCHANGED <<calls, formatted_parts, i>>
       \/ /\ \E ok \in BOOLEAN :
                /\ calls' = RecordCall(calls, FormatPrompt(chunks[i + 1]), ok)
                /\ formatted_parts' =
                      Append(formatted_parts, FormatPart(i, chunks[i + 1], ok))
          /\ i' = i + 1
          /\ UNCHANGED <<pc, exit_status>>
       \/ /\ calls' = RecordCall(calls, FormatPrompt(chunks[i + 1]), FALSE)
          /\ Exit(1)
          /\ UNCHANGED <<formatted_parts, i>>
    /\ UNCHANGED <<caller, argv, api_key, fetch_failed, raw_transcript,
                   input_text, chunk_size, text, chunks, chunked, summary,
                   final_document, file>>

\* lines 155, 177-183: the loop is over, the parts are joined and the
\* document is assembled and returned
ReturnDocument ==
    /\ pc = "format_loop"
    /\ i = Len(chunks)
    /\ final_document' = AssembleDocument(summary, JoinParts(formatted_parts))
    /\ pc' = "write"
    /\ UNCHANGED <<caller, argv, api_key, fetch_failed, raw_transcript, input_text,
                   chunk_size, text, chunks, chunked, summary, i,
                   formatted_parts, calls, file, exit_status>>

\* lines 225-235, the try block and its handler.  makedirs or open raises
\* and the path is left as it was; or the write raises after open
\* truncated the file, leaving a proper prefix of the document; or the
\* file is written and closed and the print of line 232 raises (stdout
\* closed); or all of it succeeds and main returns.  Every IOError is
\* caught at line 233 and ends the run with status 1, as does a print of
\* line 234 that raises.
WriteFile ==
    /\ pc = "write"
    /\ \/ /\ file' = final_document
          /\ Exit(0)
       \/ /\ UNCHANGED file
          /\ Exit(1)
       \/ /\ file' \in PartialWrites(final_document)
          /\ Exit(1)
       \/ /\ file' = final_document
          /\ Exit(1)
    /\ UNCHANGED <<caller, argv, api_key, fetch_failed, raw_transcript, input_text,
                   chunk_size, text, chunks, chunked, summary, i,
                   formatted_parts, calls, final_document>>

\* lines 190-201: parse_args returns, or ends the process itself: status 2
\* (usage on stderr) on a command line it rejects, status 0 (help on
\* stdout) on --help
ParseArgs ==
    /\ pc = "parse_args"
    /\ \/ argv = "url" /\ pc' = "main" /\ UNCHANGED exit_status
       \/ argv = "usage_error" /\ Exit(2)
       \/ argv = "help" /\ Exit(0)
    /\ UNCHANGED <<caller, argv, api_key, fetch_failed, raw_transcript, input_text,
                   chunk_size, text, chunks, chunked, summary, i,
                   formatted_parts, calls, final_document, file>>

\* the process is started: the environment is fixed, nothing has run
Init ==
    /\ pc = "parse_args"
    /\ caller = "pipeline"
    /\ argv \in CommandLines
    /\ api_key \in ApiKeys
    /\ chunk_size \in ChunkSizes
    /\ fetch_failed = FALSE
    /\ raw_transcript = NoText
    /\ input_text = NoText
    /\ text = <<>>
    /\ chunks = <<>>
    /\ chunked = FALSE
    /\ summary = NoDocument
    /\ i = 0
    /\ formatted_parts = <<>>
    /\ calls = <<>>
    /\ final_document = NoDocument
    /\ file \in InitialFiles
    /\ exit_status = -1

Next ==
    \/ ParseArgs
    \/ ExtractVideoId
    \/ GetVideoTitle
    \/ GetRawTranscriptText
    \/ CheckTranscript
    \/ CheckApiKey
    \/ GenerateSummary
    \/ StartFormatting
    \/ ChunkLoopStep
    \/ ChunkLoopExit
    \/ FormatChunk
    \/ ReturnDocument
    \/ WriteFile

Spec == Init /\ [][Next]_vars

----------------------------------------------------------------------------
(* Notions the statements about chunk_text use *)

\* the whitespace-separated tokens of s, as s.split() gives them
RECURSIVE TokensFrom(_, _, _, _)
TokensFrom(s, k, cur, acc) ==
    IF k > Len(s)
    THEN IF cur = <<>> THEN acc ELSE Append(acc, cur)
    ELSE IF s[k] \in Whitespace
         THEN TokensFrom(s, k + 1, <<>>,
                         IF cur = <<>> THEN acc ELSE Append(acc, cur))
         ELSE TokensFrom(s, k + 1, Append(cur, s[k]), acc)

Tokens(s) == TokensFrom(s, 1, <<>>, <<>>)

\* " ".join(parts)
RECURSIVE JoinSpaces(_)
JoinSpaces(parts) ==
    IF parts = <<>> THEN <<>>
    ELSE IF Len(parts) = 1 THEN parts[1]
    ELSE parts[1] \o <<" ">> \o JoinSpaces(Tail(parts))

\* length of the longest whitespace-free run of s
LongestRun(s) ==
    LET toks == Tokens(s)
    IN  IF toks = <<>> THEN 0 ELSE SetMax({Len(toks[k]) : k \in 1..Len(toks)})

WhitespaceFree(s) == \A j \in 1..Len(s) : s[j] \notin Whitespace

\* the split offset the specification describes: the last whitespace
\* character at an offset in 0..size, or size when there is none
BoundaryAtOrBefore(t, size) ==
    LET b == {p \in 0..size : t[p + 1] \in Whitespace}
    IN  IF b = {} THEN size ELSE SetMax(b)

----------------------------------------------------------------------------
(* Statements about chunk_text, checked under SpecChunk / FairSpecChunk *)

\* C1: no chunk chunk_text returns (or has appended so far) is the empty
\* string, whatever the text and the positive chunk_size.
C1_NoEmptyChunk ==
    \A k \in 1..Len(chunks) : chunks[k] # <<>>

\* C2: when the text holds no whitespace-free run longer than chunk_size,
\* the chunks joined by single spaces have the same whitespace-separated
\* tokens as the text (whitespace being space or newline).
C2_TokensPreserved ==
    (pc = "done" /\ LongestRun(input_text) <= chunk_size)
        => Tokens(JoinSpaces(chunks)) = Tokens(input_text)

\* C3: every chunk has length at most chunk_size, unless it is one
\* whitespace-free run longer than chunk_size.
C3_ChunkWithinMaxSize ==
    \A k \in 1..Len(chunks) :
        \/ Len(chunks[k]) <= chunk_size
        \/ (WhitespaceFree(chunks[k]) /\ Len(chunks[k]) > chunk_size)

\* C3 witness: the call returned after a cut that produced a chunk of
\* exactly chunk_size characters out of a text longer than chunk_size.
C3_Witness ==
    /\ pc = "done"
    /\ Len(input_text) > chunk_size
    /\ Len(chunks) >= 2
    /\ \E k \in 1..Len(chunks) : Len(chunks[k]) = chunk_size
    /\ \E k \in 1..Len(chunks) : ~WhitespaceFree(chunks[k])

\* C4: re-chunking any returned chunk with the same chunk_size returns the
\* one-element list holding that chunk.
C4_RechunkIdempotent ==
    pc = "done" =>
        \A k \in 1..Len(chunks) :
            chunk_text(chunks[k], chunk_size) = <<chunks[k]>>

\* C9: an iteration of the loop emits the prefix that ends at the last
\* whitespace boundary at or before offset chunk_size of the remaining text
\* (the full chunk_size-character prefix when the character at offset
\* chunk_size is a space), and cuts hard at chunk_size only when there is
\* no such boundary.
C9_SplitAtLastBoundary ==
    [][(pc = "chunk_loop" /\ Len(text) > chunk_size)
         => chunks' = Append(chunks,
                             Slice(text, 0, BoundaryAtOrBefore(text, chunk_size)))]_vars

\* C10: every iteration of the loop strictly shortens the remaining text,
\* and the call returns.
C10_LoopTerminates ==
    /\ [][(pc = "chunk_loop" /\ Len(text) > chunk_size)
            => Len(text') < Len(text)]_vars
    /\ <>(pc = "done")

\* C10 witness: the call returned after an iteration whose split index was
\* 0 because the text began with a space.
C10_Witness ==
    /\ pc = "done"
    /\ Len(input_text) > chunk_size
    /\ input_text[1] = " "
    /\ chunks # <<>>
    /\ chunks[1] = <<>>

----------------------------------------------------------------------------
(* Statements about the pipeline, checked under Spec *)

\* chunk_text has returned to generate_formatted_transcript
ChunksReturned ==
    chunked /\ pc \in {"format_loop", "write", "exit"}

\* format_transcript_with_gemini has returned
DocumentReturned == final_document # NoDocument

\* N, the number of chunks the fetched transcript yields
ChunkCount == Len(chunk_text(raw_transcript, chunk_size))

\* the placeholder the specification names for chunk k (k from 1)
Placeholder(k) ==
    <<"[", "E", "r", "r", "o", "r", " ", "f", "o", "r", "m", "a", "t",
      "t", "i", "n", "g", " ", "c", "h", "u", "n", "k", " ">>
        \o IntToStr(k) \o <<"]">>

\* the text the service generated for chunk k
GeneratedFor(k) == ResponseText(FormatPrompt(chunks[k]))

\* the prompts of the calls made so far, in call order
PromptsCalled == [k \in 1..Len(calls) |-> calls[k].prompt]

\* C5: the formatting pass collects one unit per chunk, in chunk order: the
\* k-th unit is the text generated for chunk k when that call succeeded and
\* is the placeholder "[Error formatting chunk k]" when it failed; whatever
\* calls failed, the pass ends with exactly N units for N chunks.
C5_OneUnitPerChunk ==
    ChunksReturned =>
        /\ Len(formatted_parts) <= Len(chunks)
        /\ pc \in {"write", "exit"} => Len(formatted_parts) = Len(chunks)
        /\ \A k \in 1..Len(formatted_parts) :
              formatted_parts[k] = IF calls[k + 1].ok
                                   THEN GeneratedFor(k)
                                   ELSE <<Literal(Placeholder(k))>>

\* C6: the service is called for the summary first and then once per chunk
\* in chunk order, each call made once; a run that made the summary call
\* makes all 1 + N calls, whatever the outcomes of the earlier calls; no
\* call is made before the summary call.
C6_CallSequence ==
    /\ pc \in {"parse_args", "main", "get_title", "fetch", "check_empty",
               "check_key", "summary"} => calls = <<>>
    /\ pc \in {"start_formatting", "chunk_loop"} =>
          PromptsCalled = <<SummaryPrompt(raw_transcript)>>
    /\ ChunksReturned =>
          /\ Len(calls) - 1 <= Len(chunks)
          /\ PromptsCalled =
                <<SummaryPrompt(raw_transcript)>>
                    \o [k \in 1..(Len(calls) - 1) |-> FormatPrompt(chunks[k])]
    /\ (pc \in {"write", "exit"} /\ calls # <<>>) =>
          Len(calls) = 1 + ChunkCount

\* the transcript fetch failed, or the fetched transcript is empty or only
\* whitespace, or the credential is missing from the environment
FatalCondition ==
    \/ fetch_failed
    \/ (raw_transcript # NoText /\ Strip(raw_transcript) = <<>>)
    \/ api_key \in {NoKey, ""}

\* C7 as first stated: under a failed fetch, an empty or whitespace-only
\* transcript or a missing credential, no call to the service is made,
\* nothing is chunked, no output file is written, and the run ends with a
\* non-zero exit status.
C7_FatalAlwaysNonZero ==
    FatalCondition =>
        /\ calls = <<>>
        /\ ~chunked
        /\ file \in InitialFiles
        /\ pc = "exit" => exit_status # 0

\* C7, amended: under a failed fetch, an empty or whitespace-only
\* transcript or a missing credential, no call to the service is made,
\* nothing is chunked, no document is built and no output file is written;
\* the run never gets past the key lookup, and it ends with a non-zero
\* exit status unless the command line asked for --help.
C7_FatalBeforeWork ==
    FatalCondition =>
        /\ calls = <<>>
        /\ ~chunked
        /\ file \in InitialFiles
        /\ final_document = NoDocument
        /\ pc \in {"parse_args", "main", "get_title", "fetch",
                   "check_empty", "check_key", "exit"}
        /\ pc = "exit" => (exit_status # 0 \/ argv = "help")

\* C7 witness: a transcript was fetched and passed the empty check, the
\* credential was found missing at the lookup and the run ended there.
C7_Witness ==
    /\ pc = "exit"
    /\ argv = "url"
    /\ api_key = NoKey
    /\ ~fetch_failed
    /\ raw_transcript # NoText
    /\ Strip(raw_transcript) # <<>>
    /\ exit_status = 1
    /\ calls = <<>>

\* C8: whatever the outcomes of the summary call and of the chunk calls,
\* a run that made the summary call returns a document: the summary
\* heading, then the summary (the fixed placeholder when the summary call
\* failed), then the transcript heading, then the joined units; a failed
\* summary call does not end the run, and a successful write stores that
\* document.
C8_DocumentStructure ==
    LET s == IF calls[1].ok
             THEN ResponseText(SummaryPrompt(raw_transcript))
             ELSE <<Literal(
                 <<"E", "r", "r", "o", "r", " ", "g", "e", "n", "e",
                   "r", "a", "t", "i", "n", "g", " ", "s", "u", "m",
                   "m", "a", "r", "y", ".">>)>>
        n == Len(s)
        d == final_document
    IN  /\ DocumentReturned =>
              /\ summary = s
              /\ Len(d) >= n + 3
              /\ d[1] = SummaryHeading
              /\ SubSeq(d, 2, n + 1) = s
              /\ d[n + 2] = TranscriptHeading
              /\ SubSeq(d, n + 3, Len(d)) =
                    JoinParts(formatted_parts) \o <<FinalNewline>>
              /\ Len(formatted_parts) = Len(chunks)
              /\ Len(calls) = 1 + Len(chunks)
        /\ (pc = "exit" /\ calls # <<>>) => DocumentReturned
        /\ (DocumentReturned /\ pc = "exit" /\ exit_status = 0) =>
              file = final_document

====
